---- MODULE Spec2Model ----
(***************************************************************************)
(* Tracebound (src/main.py): TraceboundScanner as a state machine.         *)
(*                                                                         *)
(* The scanner is a set of asyncio coroutines on one event loop.  A step   *)
(* of the model is the code one coroutine runs between two suspension      *)
(* points (await session.get, await response.text, await asyncio.sleep,    *)
(* the semaphore's __aenter__/__aexit__, await of a nested coroutine).     *)
(* The remote site is the environment: every request may meet a network    *)
(* error, any status of Statuses, and a body that reads, breaks off or     *)
(* does not decode.                                                        *)
(***************************************************************************)
EXTENDS Integers, Sequences, FiniteSets, TLC

(***************************************************************************)
(* Program constants (src/main.py:25-26) and model bounds.                 *)
(***************************************************************************)
RETRY_ATTEMPTS == 3
RETRY_BACKOFF == 1

\* largest value of --concurrency the model tries (1..MaxConcurrency)
MaxConcurrency == 2

\* how many times run() is called on the one scanner
MaxRuns == 2

\* the longest text and the longest phrase of the matching fixtures
MaxText == 3
MaxPhrase == 2

\* the phrases searched for (plain mode, self.regex = False): the spec's
\* example and the empty phrase
Phrases == { <<"P", "r", "o", "o", "f">>, <<>> }

\* HTTP statuses the site answers with: 200, a success status other than
\* 200, and an error status
Statuses == {200, 203, 404}

(***************************************************************************)
(* Strings are sequences of one-character strings.                         *)
(***************************************************************************)
\* str.lower() on one character, for the letters the model's URLs use
\* "dotless_i" stands for U+0131, the lower-case letter whose upper case is
\* "I": str.lower() leaves it, and str.lower() of "I" is "i"
LowerChar(c) ==
    CASE c = "S" -> "s" [] c = "I" -> "i" [] c = "T" -> "t" [] c = "E" -> "e"
      [] c = "M" -> "m" [] c = "A" -> "a" [] c = "P" -> "p" [] c = "R" -> "r"
      [] c = "O" -> "o" [] c = "F" -> "f"
      [] OTHER -> c

\* str.lower()
Lower(s) == [i \in 1..Len(s) |-> LowerChar(s[i])]

\* needle in hay (contiguous substring)
Contains(hay, needle) ==
    \E i \in 0..(Len(hay) - Len(needle)) :
        \A j \in 1..Len(needle) : hay[i + j] = needle[j]

RECURSIVE LStrip(_)
LStrip(s) == IF s # <<>> /\ Head(s) = " " THEN LStrip(Tail(s)) ELSE s

RECURSIVE RStrip(_)
RStrip(s) ==
    IF s # <<>> /\ s[Len(s)] = " " THEN RStrip(SubSeq(s, 1, Len(s) - 1)) ELSE s

\* str.strip()
Strip(s) == RStrip(LStrip(s))

\* the literal "sitemap" of parse_sitemap
SITEMAP == <<"s", "i", "t", "e", "m", "a", "p">>

\* "sitemap" in url_text.lower()
IsNestedSitemap(url_text) == Contains(Lower(url_text), SITEMAP)

(***************************************************************************)
(* URLs.  The state holds a short name for each URL; Spelling gives its    *)
(* characters.  base_url is "h".                                           *)
(***************************************************************************)
base_url == <<"h">>

\* sitemap_paths of get_all_page_urls
sitemap_paths ==
    << <<"/", "s", "i", "t", "e", "m", "a", "p", ".", "x", "m", "l">>,
       <<"/", "s", "i", "t", "e", "m", "a", "p", "_", "i", "n", "d", "e", "x",
         ".", "x", "m", "l">> >>

Spelling ==
    [ S1 |-> base_url \o sitemap_paths[1],
      S2 |-> base_url \o sitemap_paths[2],
      SA |-> <<"h", "/", "s", "i", "t", "e", "m", "a", "p", "_", "a">>,
      SB |-> <<"h", "/", "S", "I", "T", "E", "M", "A", "P", "_", "B">>,
      P1 |-> <<"h", "/", "p", "1">>,
      P2 |-> <<"h", "/", "p", "2">>,
      P3 |-> <<"h", "/", "p", "3">> ]

Urls == DOMAIN Spelling

\* the name of the URL spelled s
UrlOf(s) == CHOOSE u \in Urls : Spelling[u] = s

SitemapUrls == {u \in Urls : IsNestedSitemap(Spelling[u])}
PageUrls == Urls \ SitemapUrls

\* the two seed URLs f"{self.base_url}{path}"
Seed(i) == UrlOf(base_url \o sitemap_paths[i])

(***************************************************************************)
(* What the site serves.  A body is what fetch returns: "" (kind "empty"), *)
(* a well-formed sitemap (kind "xml", the text of its <loc> elements in    *)
(* document order), text that is no XML (kind "malformed"), or a page      *)
(* (kind "html", its visible text).                                        *)
(***************************************************************************)
\* loc.text of an element <loc/> that has no text
None == <<"None">>

Empty == [kind |-> "empty", locs |-> <<>>, text |-> <<>>]
Xml(locs) == [kind |-> "xml", locs |-> locs, text |-> <<>>]
Malformed == [kind |-> "malformed", locs |-> <<>>, text |-> <<>>]
Html(text) == [kind |-> "html", locs |-> <<>>, text |-> text]

Pages ==
    [ P1 |-> Html(<<"a", " ", "P", "R", "O", "O", "F">>),
      P2 |-> Html(<<"n", "o">>),
      P3 |-> Empty ]

Sp == Spelling

\* the sitemap fixtures: the spec's end-to-end example, a reference cycle
\* with a self-reference, two seeds sharing a nested sitemap, and a sitemap
\* with padded and upper-case entries, a nested sitemap that references
\* itself, and an empty <loc/>
Sitemaps ==
    [ example |->
        [ S1 |-> Xml(<<Sp.SA, Sp.P1>>), S2 |-> Xml(<<>>),
          SA |-> Xml(<<Sp.P2>>), SB |-> Malformed ],
      cycle |->
        [ S1 |-> Xml(<<Sp.S2, Sp.P1>>), S2 |-> Xml(<<Sp.S1, Sp.SA, Sp.P2>>),
          SA |-> Xml(<<Sp.SA, Sp.P1>>), SB |-> Malformed ],
      shared |->
        [ S1 |-> Xml(<<Sp.P1, Sp.SA>>), S2 |-> Xml(<<Sp.SA, Sp.P2>>),
          SA |-> Xml(<<Sp.P3, Sp.P1>>), SB |-> Malformed ],
      messy |->
        [ S1 |-> Xml(<<<<" ">> \o Sp.P1 \o <<" ">>, Sp.SB, None, Sp.P2>>),
          S2 |-> Malformed,
          SA |-> Empty, SB |-> Xml(<<Sp.P3, Sp.SB, Sp.P1>>) ] ]

Sites == DOMAIN Sitemaps

\* the body the site serves at url
BodyOf(s, url) == IF url \in PageUrls THEN Pages[url] ELSE Sitemaps[s][url]

(***************************************************************************)
(* State.                                                                  *)
(***************************************************************************)
SeedTasks == {"G1", "G2"}
SeedOf(g) == IF g = "G1" THEN Seed(1) ELSE Seed(2)

\* every coroutine that can be inside fetch: the two parse_sitemap tasks
\* of gather and one scan_page task per page URL
Tasks == SeedTasks \cup PageUrls

VARIABLES
    phrase,             \* self.phrase
    concurrency,        \* self.concurrency
    site,               \* the fixture the remote site serves
    visited_sitemaps,   \* self.visited_sitemaps
    found_urls,         \* self.found_urls
    stack,              \* per gather task: the parse_sitemap call stack
    results,            \* per gather task: its entry in gather's results
    page_urls,          \* page_urls of run (the list(set(...)) of the resolver)
    scan,               \* per page URL: where its scan_page task is
    semaphore,          \* the value of run's asyncio.Semaphore
    fetch,              \* per task: its call of fetch
    fetchCalls,         \* per URL: how many calls of fetch named it
    parsed,             \* the sitemap URLs ET.fromstring has parsed
    phase,              \* where run is
    written,            \* the lists handed to write_results
    runlog,             \* per returned call of run: what it resolved and
                        \* what it handed to write_results
    dropped,            \* the page URLs collected in frames that an
                        \* exception of the for loop has unwound
    verdict,            \* per page URL: how its last scan_page ended
    probe               \* a text matched against the phrase outside a run

vars == <<phrase, concurrency, site, visited_sitemaps, found_urls, stack,
          results, page_urls, scan, semaphore, fetch, fetchCalls, parsed,
          phase, written, runlog, dropped, verdict, probe>>

Idle ==
    [fpc |-> "idle", url |-> "-", attempt |-> 0, waits |-> 0, waited |-> 0,
     errs |-> 0, status |-> 0, body |-> Empty]

\* fetch is called: attempt 1 is about to enter session.get
NewFetch(url) ==
    [fpc |-> "get", url |-> url, attempt |-> 1, waits |-> 0, waited |-> 0,
     errs |-> 0, status |-> 0, body |-> Empty]

Frame(url) == [url |-> url, pc |-> "enter", locs |-> <<>>, urls |-> <<>>]

Pending == [kind |-> "pending", urls |-> <<>>]

\* no text is being matched outside a run
NoProbe == [text |-> <<>>, found |-> FALSE, before |-> FALSE,
            toggled |-> FALSE, stable |-> TRUE]

\* lines 83-85 and the locals of run before its first step
Constructed ==
    /\ visited_sitemaps = {}
    /\ found_urls = <<>>
    /\ stack = [g \in SeedTasks |-> <<Frame(SeedOf(g))>>]
    /\ results = [g \in SeedTasks |-> Pending]
    /\ page_urls = {}
    /\ scan = [p \in PageUrls |-> "none"]
    /\ semaphore = 0
    /\ fetch = [t \in Tasks |-> Idle]
    /\ fetchCalls = [u \in Urls |-> 0]
    /\ parsed = {}
    /\ phase = "resolve"
    /\ written = <<>>
    /\ runlog = <<>>
    /\ dropped = {}
    /\ verdict = [p \in PageUrls |-> "none"]

Init ==
    /\ phrase \in Phrases
    /\ concurrency \in 1..MaxConcurrency
    /\ site \in Sites
    /\ Constructed
    /\ probe = NoProbe

(***************************************************************************)
(* fetch (src/main.py:91-107).  fpc is where the call is:                  *)
(*   "get"    in session.get, waiting for a connection of the connector    *)
(*   "req"    request sent on a connection, waiting for the response       *)
(*   "text"   status 200 seen, in response.text()                          *)
(*   "sleep"  in asyncio.sleep of the except clause                        *)
(*   "ret"    returned body to the caller, who has not resumed yet         *)
(*   "raised" left by an exception the except clause does not name         *)
(***************************************************************************)
InFetch(t) == fetch[t].fpc \in {"get", "req", "text", "sleep"}

\* the tasks inside a call of fetch
FetchCallsInFlight == Cardinality({t \in Tasks : InFetch(t)})

\* the connections of TCPConnector(limit=self.concurrency) in use
Connections == Cardinality({t \in Tasks : fetch[t].fpc \in {"req", "text"}})

\* RETRY_BACKOFF * (2 ** (attempt - 1))
Backoff(attempt) == RETRY_BACKOFF * (2 ^ (attempt - 1))

\* response.status == 200
IsOk(status) == status = 200

\* range(1, retries) in place of range(1, retries + 1)
HasNextAttemptShort(attempt, retries) == attempt + 1 <= retries - 1

\* for attempt in range(1, retries + 1): is there a next iteration
HasNextAttempt(attempt, retries) == attempt + 1 <= retries

\* the except clause up to its await: the error is logged, sleep begins
Caught(f) == [f EXCEPT !.fpc = "sleep", !.errs = @ + 1, !.status = 0]

\* after the sleep of the except clause: the next iteration of the loop,
\* or the end of the loop and return ""
AfterSleep(f, retries) ==
    LET g == [f EXCEPT !.waits = @ + 1, !.waited = @ + Backoff(f.attempt)]
    IN  IF HasNextAttempt(f.attempt, retries)
        THEN [g EXCEPT !.fpc = "get", !.attempt = @ + 1]
        ELSE [g EXCEPT !.fpc = "ret", !.body = Empty]

\* a status other than 200 raised as a ClientResponseError
\* (raise_for_status) and so retried by the except clause
OnStatusRetried(f, status) ==
    IF IsOk(status)
    THEN [f EXCEPT !.fpc = "text", !.status = status]
    ELSE [f EXCEPT !.fpc = "sleep", !.status = status, !.errs = @ + 1]

\* the response's status line has arrived
OnStatus(f, status) ==
    IF IsOk(status)
    THEN [f EXCEPT !.fpc = "text", !.status = status]
    ELSE [f EXCEPT !.fpc = "ret", !.status = status, !.body = Empty]

\* session.get obtains one of the connector's connections and sends
FetchConnect(t) ==
    /\ fetch[t].fpc = "get"
    /\ Connections < concurrency
    /\ fetch' = [fetch EXCEPT ![t].fpc = "req"]
    /\ UNCHANGED <<phrase, concurrency, site, visited_sitemaps, found_urls, stack,
                   results, page_urls, scan, semaphore, fetchCalls, parsed,
                   phase, written,
                   runlog, dropped, verdict, probe>>

\* aiohttp.ClientError or asyncio.TimeoutError anywhere inside the
\* async with block: while waiting for a connection, for the response, or
\* while reading the body
FetchNetworkError(t) ==
    /\ fetch[t].fpc \in {"get", "req", "text"}
    /\ fetch' = [fetch EXCEPT ![t] = Caught(@)]
    /\ UNCHANGED <<phrase, concurrency, site, visited_sitemaps, found_urls, stack,
                   results, page_urls, scan, semaphore, fetchCalls, parsed,
                   phase, written,
                   runlog, dropped, verdict, probe>>

FetchStatus(t) ==
    /\ fetch[t].fpc = "req"
    /\ \E status \in Statuses : fetch' = [fetch EXCEPT ![t] = OnStatus(@, status)]
    /\ UNCHANGED <<phrase, concurrency, site, visited_sitemaps, found_urls, stack,
                   results, page_urls, scan, semaphore, fetchCalls, parsed,
                   phase, written,
                   runlog, dropped, verdict, probe>>

\* return await response.text()
FetchText(t) ==
    /\ fetch[t].fpc = "text"
    /\ fetch' = [fetch EXCEPT ![t].fpc = "ret",
                              ![t].body = BodyOf(site, fetch[t].url)]
    /\ UNCHANGED <<phrase, concurrency, site, visited_sitemaps, found_urls, stack,
                   results, page_urls, scan, semaphore, fetchCalls, parsed,
                   phase, written,
                   runlog, dropped, verdict, probe>>

\* response.text() raises UnicodeDecodeError (the body is not text in the
\* charset the response names): no except clause of fetch names it
FetchDecodeError(t) ==
    /\ fetch[t].fpc = "text"
    /\ fetch' = [fetch EXCEPT ![t].fpc = "raised"]
    /\ UNCHANGED <<phrase, concurrency, site, visited_sitemaps, found_urls, stack,
                   results, page_urls, scan, semaphore, fetchCalls, parsed,
                   phase, written,
                   runlog, dropped, verdict, probe>>

\* asyncio.sleep returns
FetchWake(t) ==
    /\ fetch[t].fpc = "sleep"
    /\ fetch' = [fetch EXCEPT ![t] = AfterSleep(@, RETRY_ATTEMPTS)]
    /\ UNCHANGED <<phrase, concurrency, site, visited_sitemaps, found_urls, stack,
                   results, page_urls, scan, semaphore, fetchCalls, parsed,
                   phase, written,
                   runlog, dropped, verdict, probe>>

(***************************************************************************)
(* parse_sitemap (src/main.py:109-135).  A frame's pc:                     *)
(*   "enter"  called, nothing run yet                                      *)
(*   "fetch"  in await self.fetch(sitemap_url, session)                    *)
(*   "await"  in await self.parse_sitemap(url_text, session); the callee   *)
(*            is the frame above                                           *)
(*   "loop"   the callee has returned, the for loop has not resumed        *)
(***************************************************************************)
\* the deepest stack a resolution builds: one frame per sitemap URL that
\* can be added to visited_sitemaps, and one that finds its URL visited
MaxDepth == Cardinality(SitemapUrls) + 1

\* set(seq)
ToSet(seq) == {seq[i] : i \in 1..Len(seq)}

Top(g) == stack[g][Len(stack[g])]

\* a visit check that never finds the URL (the set is never consulted)
AlreadyVisitedNever(sitemap_url, visited) == FALSE

\* a visit check that looks up the lowercased URL in a set that holds the
\* URLs as written
AlreadyVisitedLowered(sitemap_url, visited) ==
    \E v \in visited : Spelling[v] = Lower(Spelling[sitemap_url])

\* sitemap_url in self.visited_sitemaps
AlreadyVisited(sitemap_url, visited) == sitemap_url \in visited

\* the for loop over root.findall(".//s:loc", ns) from the entry at the head
\* of locs, up to its next suspension: it returns urls, raises (loc.text is
\* None: AttributeError on .strip()), or calls parse_sitemap(child)
RECURSIVE LoopOutcome(_, _)
LoopOutcome(locs, urls) ==
    IF locs = <<>>
    THEN [kind |-> "return", urls |-> urls, locs |-> <<>>, child |-> "-"]
    ELSE IF Head(locs) = None
    THEN [kind |-> "raise", urls |-> urls, locs |-> Tail(locs), child |-> "-"]
    ELSE LET url_text == Strip(Head(locs))
         IN  IF IsNestedSitemap(url_text)
             THEN [kind |-> "call", urls |-> urls, locs |-> Tail(locs),
                   child |-> UrlOf(url_text)]
             ELSE LoopOutcome(Tail(locs), Append(urls, UrlOf(url_text)))

\* the top frame of g returns ret: to gather when it is the task's first
\* frame, else to the frame below, which does urls.extend(nested_urls)
Returns(g, ret) ==
    LET st == stack[g]
        n == Len(st)
    IN  IF n = 1
        THEN /\ stack' = [stack EXCEPT ![g] = <<>>]
             /\ results' = [results EXCEPT ![g] = [kind |-> "list", urls |-> ret]]
        ELSE /\ stack' = [stack EXCEPT ![g] =
                    Append(SubSeq(st, 1, n - 2),
                           [st[n - 1] EXCEPT !.pc = "loop", !.urls = @ \o ret])]
             /\ UNCHANGED results

\* an exception leaves the top frame of g: no frame below catches it, and
\* gather(return_exceptions=True) stores it as the task's result
Raises(g) ==
    /\ stack' = [stack EXCEPT ![g] = <<>>]
    /\ results' = [results EXCEPT ![g] = [kind |-> "exc", urls |-> <<>>]]

\* what the frames of g hold in their local lists urls when the loop of
\* the top frame, with urls collected, raises
Collected(g, urls) ==
    ToSet(urls) \cup
    UNION {ToSet(stack[g][i].urls) : i \in 1..(Len(stack[g]) - 1)}

\* the for loop of the top frame of g runs on from locs with urls collected
Loops(g, locs, urls) ==
    LET st == stack[g]
        n == Len(st)
        o == LoopOutcome(locs, urls)
    IN  CASE o.kind = "return" -> Returns(g, o.urls) /\ UNCHANGED dropped
          [] o.kind = "raise" ->
                /\ Raises(g)
                /\ dropped' = dropped \cup Collected(g, o.urls)
          [] o.kind = "call" ->
                /\ UNCHANGED dropped
                /\ n < MaxDepth
                /\ stack' = [stack EXCEPT ![g] =
                       SubSeq(st, 1, n - 1)
                       \o <<[st[n] EXCEPT !.pc = "await", !.locs = o.locs,
                                          !.urls = o.urls],
                            Frame(o.child)>>]
                /\ UNCHANGED results

\* lines 111-116: the visit check, and the call of fetch up to session.get
ParseSitemapEnter(g) ==
    /\ stack[g] # <<>>
    /\ Top(g).pc = "enter"
    /\ IF AlreadyVisited(Top(g).url, visited_sitemaps)
       THEN /\ Returns(g, <<>>)
            /\ UNCHANGED <<visited_sitemaps, fetch, fetchCalls>>
       ELSE /\ visited_sitemaps' = visited_sitemaps \cup {Top(g).url}
            /\ fetch' = [fetch EXCEPT ![g] = NewFetch(Top(g).url)]
            /\ fetchCalls' = [fetchCalls EXCEPT ![Top(g).url] = @ + 1]
            /\ stack' = [stack EXCEPT ![g][Len(stack[g])].pc = "fetch"]
            /\ UNCHANGED results
    /\ UNCHANGED <<phrase, concurrency, site, found_urls, page_urls, scan, semaphore,
                   parsed, phase, written,
                   runlog, dropped, verdict, probe>>

\* lines 116-135: fetch has returned content; parse it and run the loop
ParseSitemapFetched(g) ==
    /\ stack[g] # <<>>
    /\ Top(g).pc = "fetch"
    /\ fetch[g].fpc = "ret"
    /\ LET content == fetch[g].body
       IN  IF content.kind = "empty"
           THEN Returns(g, <<>>) /\ UNCHANGED <<parsed, dropped>>
           ELSE IF content.kind # "xml"
           THEN Returns(g, <<>>) /\ UNCHANGED <<parsed, dropped>>
           ELSE /\ parsed' = parsed \cup {Top(g).url}
                /\ Loops(g, content.locs, <<>>)
    /\ fetch' = [fetch EXCEPT ![g] = Idle]
    /\ UNCHANGED <<phrase, concurrency, site, visited_sitemaps, found_urls,
                   page_urls, scan, semaphore, fetchCalls, phase, written,
                   runlog, verdict, probe>>

\* line 116: fetch has raised; parse_sitemap has no handler around it
ParseSitemapFetchRaised(g) ==
    /\ stack[g] # <<>>
    /\ Top(g).pc = "fetch"
    /\ fetch[g].fpc = "raised"
    /\ Raises(g)
    /\ fetch' = [fetch EXCEPT ![g] = Idle]
    /\ UNCHANGED <<phrase, concurrency, site, visited_sitemaps, found_urls, page_urls,
                   scan, semaphore, fetchCalls, parsed, phase, written,
                   runlog, dropped, verdict, probe>>

\* lines 131-135: the nested call has returned; the loop runs on
ParseSitemapLoop(g) ==
    /\ stack[g] # <<>>
    /\ Top(g).pc = "loop"
    /\ Loops(g, Top(g).locs, Top(g).urls)
    /\ UNCHANGED <<phrase, concurrency, site, visited_sitemaps, found_urls,
                   page_urls, scan, semaphore, fetch, fetchCalls, parsed,
                   phase, written, runlog, verdict, probe>>

(***************************************************************************)
(* get_all_page_urls (src/main.py:137-154) and run (src/main.py:177-203).  *)
(* phase is where run is: "resolve" in await self.get_all_page_urls,       *)
(* "scan" in the as_completed loop, "exit" returned at line 189, "done"    *)
(* returned after write_results.                                           *)
(***************************************************************************)

\* lines 146-152: the lists among gather's results, as a set
UniqueUrls(res) ==
    UNION {ToSet(res[g].urls) : g \in {h \in SeedTasks : res[h].kind = "list"}}

\* a semaphore that never blocks (scan_page fetching outside the semaphore)
LockedNever(value) == FALSE

\* asyncio.Semaphore.locked()
Locked(value) == value = 0

\* soup.get_text(separator=" ", strip=True) of a page body
GetText(content) == Strip(content.text)

\* a match that compares the phrase as it was given
PlainMatchExact(phrase_lower, given, text) == Contains(Lower(text), given)

\* lines 169-170, plain mode: self.phrase_lower in text.lower(); given is
\* self.phrase, which plain mode does not read
PlainMatch(phrase_lower, given, text) == Contains(Lower(text), phrase_lower)

\* lines 81, 164-170: the match of scan_page against self.phrase
Matches(text) == PlainMatch(Lower(phrase), phrase, text)

\* a run that goes on to the scan with nothing to scan
NoPagesNever(urls) == FALSE

\* line 187: not page_urls
NoPages(urls) == urls = {}

\* a semaphore whose release gives no permit back
ReleaseLeak(value) == value

\* asyncio.Semaphore.release(), at the exit of async with
Release(value) == value + 1

\* lines 145-193: gather has both results; run returns early on an empty
\* list, else makes the semaphore and one scan_page task per URL
GatherDone ==
    /\ phase = "resolve"
    /\ \A g \in SeedTasks : results[g].kind # "pending"
    /\ page_urls' = UniqueUrls(results)
    /\ IF NoPages(page_urls')
       THEN /\ phase' = "exit"
            /\ runlog' = Append(runlog, [pages |-> page_urls',
                                         wrote |-> FALSE, handed |-> <<>>])
            /\ UNCHANGED <<semaphore, scan>>
       ELSE /\ phase' = "scan"
            /\ semaphore' = concurrency
            /\ scan' = [p \in PageUrls |->
                           IF p \in page_urls' THEN "acquire" ELSE "none"]
            /\ UNCHANGED runlog
    /\ UNCHANGED <<phrase, concurrency, site, visited_sitemaps, found_urls, stack,
                   results, fetch, fetchCalls, parsed, written,
                   dropped, verdict, probe>>

\* lines 158-159: async with semaphore, and the call of fetch up to
\* session.get
ScanPageAcquire(p) ==
    /\ scan[p] = "acquire"
    /\ ~Locked(semaphore)
    /\ semaphore' = semaphore - 1
    /\ fetch' = [fetch EXCEPT ![p] = NewFetch(p)]
    /\ fetchCalls' = [fetchCalls EXCEPT ![p] = @ + 1]
    /\ scan' = [scan EXCEPT ![p] = "fetch"]
    /\ UNCHANGED <<phrase, concurrency, site, visited_sitemaps, found_urls, stack,
                   results, page_urls, parsed, phase, written,
                   runlog, dropped, verdict, probe>>

\* lines 159-175: fetch has returned content; the semaphore is released,
\* and unless content is "" the text is extracted and matched
ScanPageFetched(p) ==
    /\ scan[p] = "fetch"
    /\ fetch[p].fpc = "ret"
    /\ semaphore' = Release(semaphore)
    /\ LET content == fetch[p].body
       IN  IF content.kind = "empty"
           THEN /\ UNCHANGED found_urls
                /\ verdict' = [verdict EXCEPT ![p] =
                       IF fetch[p].status = 200 THEN "skipped200"
                                                ELSE "skipped"]
           ELSE IF Matches(GetText(content))
           THEN /\ found_urls' = Append(found_urls, p)
                /\ verdict' = [verdict EXCEPT ![p] = "match"]
           ELSE /\ UNCHANGED found_urls
                /\ verdict' = [verdict EXCEPT ![p] = "nomatch"]
    /\ scan' = [scan EXCEPT ![p] = "done"]
    /\ fetch' = [fetch EXCEPT ![p] = Idle]
    /\ UNCHANGED <<phrase, concurrency, site, visited_sitemaps, stack, results,
                   page_urls, fetchCalls, parsed, phase, written,
                   runlog, dropped, probe>>

\* lines 162-163, 196-200: fetch has returned a body and BeautifulSoup or
\* get_text raises on it; run's loop logs the task's exception
ScanPageScanError(p) ==
    /\ scan[p] = "fetch"
    /\ fetch[p].fpc = "ret"
    /\ fetch[p].body.kind # "empty"
    /\ semaphore' = Release(semaphore)
    /\ verdict' = [verdict EXCEPT ![p] = "error"]
    /\ scan' = [scan EXCEPT ![p] = "failed"]
    /\ fetch' = [fetch EXCEPT ![p] = Idle]
    /\ UNCHANGED <<phrase, concurrency, site, visited_sitemaps, found_urls, stack,
                   results, page_urls, fetchCalls, parsed, phase, written,
                   runlog, dropped, probe>>

\* lines 158-159, 196-200: fetch has raised; the semaphore is released on
\* the way out and run's loop logs the task's exception
ScanPageFetchRaised(p) ==
    /\ scan[p] = "fetch"
    /\ fetch[p].fpc = "raised"
    /\ semaphore' = Release(semaphore)
    /\ verdict' = [verdict EXCEPT ![p] = "failed"]
    /\ scan' = [scan EXCEPT ![p] = "failed"]
    /\ fetch' = [fetch EXCEPT ![p] = Idle]
    /\ UNCHANGED <<phrase, concurrency, site, visited_sitemaps, found_urls, stack,
                   results, page_urls, fetchCalls, parsed, phase, written,
                   runlog, dropped, probe>>

\* a loop that does not wait for the tasks
AllCompletedAlready(urls, sc) == TRUE

\* lines 195-200: the loop over asyncio.as_completed(tasks) has awaited
\* every task, returned or raised
AllCompleted(urls, sc) == \A p \in urls : sc[p] \in {"done", "failed"}

\* lines 196-203: every task of as_completed has been awaited;
\* write_results is handed self.found_urls
WriteResults ==
    /\ phase = "scan"
    /\ AllCompleted(page_urls, scan)
    /\ written' = Append(written, found_urls)
    /\ runlog' = Append(runlog, [pages |-> page_urls, wrote |-> TRUE,
                                 handed |-> found_urls])
    /\ phase' = "done"
    /\ UNCHANGED <<phrase, concurrency, site, visited_sitemaps, found_urls, stack,
                   results, page_urls, scan, semaphore, fetch, fetchCalls,
                   parsed, dropped, verdict, probe>>

\* lines 177-182: run is called again on the scanner whose run has
\* returned; the gather tasks, page_urls, the scan tasks and the semaphore
\* are the call's own, everything on self stays as the last call left it
RunAgain ==
    /\ phase \in {"exit", "done"}
    /\ Len(runlog) < MaxRuns
    /\ stack' = [g \in SeedTasks |-> <<Frame(SeedOf(g))>>]
    /\ results' = [g \in SeedTasks |-> Pending]
    /\ page_urls' = {}
    /\ scan' = [p \in PageUrls |-> "none"]
    /\ semaphore' = 0
    /\ phase' = "resolve"
    /\ UNCHANGED <<phrase, concurrency, site, visited_sitemaps, found_urls,
                   fetch, fetchCalls, parsed, written, runlog, dropped,
                   verdict, probe>>

Next ==
    \/ \E t \in Tasks :
        \/ FetchConnect(t)
        \/ FetchNetworkError(t)
        \/ FetchStatus(t)
        \/ FetchText(t)
        \/ FetchDecodeError(t)
        \/ FetchWake(t)
    \/ \E g \in SeedTasks :
        \/ ParseSitemapEnter(g)
        \/ ParseSitemapFetched(g)
        \/ ParseSitemapFetchRaised(g)
        \/ ParseSitemapLoop(g)
    \/ GatherDone
    \/ \E p \in PageUrls :
        \/ ScanPageAcquire(p)
        \/ ScanPageFetched(p)
        \/ ScanPageScanError(p)
        \/ ScanPageFetchRaised(p)
    \/ WriteResults
    \/ RunAgain

Spec == Init /\ [][Next]_vars

\* the event loop runs a coroutine that can run, and every network call
\* and every sleep ends
FairSpec == Spec /\ WF_vars(Next)

\* run up to the return of get_all_page_urls: the two gather tasks, their
\* calls of fetch, and run's step after gather
ResolveNext ==
    \/ \E g \in SeedTasks :
        \/ FetchConnect(g)
        \/ FetchNetworkError(g)
        \/ FetchStatus(g)
        \/ FetchText(g)
        \/ FetchDecodeError(g)
        \/ FetchWake(g)
        \/ ParseSitemapEnter(g)
        \/ ParseSitemapFetched(g)
        \/ ParseSitemapFetchRaised(g)
        \/ ParseSitemapLoop(g)
    \/ GatherDone

\* resolution does not read the phrase: one phrase stands for all
ResolveInit == Init /\ phrase = <<"P", "r", "o", "o", "f">>

ResolveSpec == ResolveInit /\ [][ResolveNext]_vars /\ WF_vars(ResolveNext)

\* a run against the fixture whose three pages are all resolved, with
\* fewer permits than pages so that scans wait, under the fairness of the
\* event loop
ScanInit ==
    /\ Init
    /\ site = "shared"
    /\ phrase = <<"P", "r", "o", "o", "f">>
    /\ concurrency < Cardinality(PageUrls)

ScanSpec == ScanInit /\ [][Next]_vars /\ WF_vars(Next)

(***************************************************************************)
(* The plain match of scan_page (src/main.py:81, 164-170) as a function    *)
(* of the phrase and the text: the inputs are drawn from short strings     *)
(* over MatchChars, and each step changes the letter case of one           *)
(* character of the text or of the phrase and matches again.               *)
(***************************************************************************)
MatchChars == {"I", "i", "dotless_i", "P"}

\* the strings over S of length up to n
StringsUpTo(S, n) == UNION {[1..k -> S] : k \in 0..n}

\* the other letter case of a character: str.swapcase() on one character
SwapCase(c) ==
    CASE c = "I" -> "i" [] c = "i" -> "I" [] c = "dotless_i" -> "I"
      [] c = "P" -> "p" [] c = "p" -> "P"
      [] OTHER -> c

\* c and its other case have the same str.lower()
SameLower(c) == LowerChar(SwapCase(c)) = LowerChar(c)

MatchInit ==
    /\ phrase \in StringsUpTo(MatchChars, MaxPhrase)
    /\ concurrency = 1
    /\ site = "example"
    /\ Constructed
    /\ \E text \in StringsUpTo(MatchChars, MaxText) :
          probe = [text |-> text, found |-> Matches(text),
                   before |-> Matches(text), toggled |-> FALSE,
                   stable |-> TRUE]

\* the text is matched again with the case of its character i changed
MatchToggleText(i) ==
    /\ i \in 1..Len(probe.text)
    /\ LET text == [probe.text EXCEPT ![i] = SwapCase(@)]
       IN  probe' = [text |-> text, found |-> Matches(text),
                     before |-> probe.found, toggled |-> TRUE,
                     stable |-> SameLower(probe.text[i])]
    /\ UNCHANGED <<phrase, concurrency, site, visited_sitemaps, found_urls,
                   stack, results, page_urls, scan, semaphore, fetch,
                   fetchCalls, parsed, phase, written, runlog, dropped,
                   verdict>>

\* the text is matched by a scanner made with the case of character i of
\* the phrase changed
MatchTogglePhrase(i) ==
    /\ i \in 1..Len(phrase)
    /\ phrase' = [phrase EXCEPT ![i] = SwapCase(@)]
    /\ probe' = [probe EXCEPT
                   !.found = PlainMatch(Lower(phrase'), phrase', probe.text),
                   !.before = probe.found, !.toggled = TRUE,
                   !.stable = SameLower(phrase[i])]
    /\ UNCHANGED <<concurrency, site, visited_sitemaps, found_urls, stack,
                   results, page_urls, scan, semaphore, fetch, fetchCalls,
                   parsed, phase, written, runlog, dropped, verdict>>

MatchNext ==
    \/ \E i \in 1..MaxText : MatchToggleText(i)
    \/ \E i \in 1..MaxPhrase : MatchTogglePhrase(i)

MatchSpec == MatchInit /\ [][MatchNext]_vars

(***************************************************************************)
(* Properties.                                                             *)
(***************************************************************************)
\* the scan_page tasks inside their call of fetch
ScanFetchesInFlight ==
    Cardinality({p \in PageUrls : scan[p] = "fetch" /\ InFetch(p)})

\* C1: during the page-scanning phase the number of scan_page tasks that
\* are inside their fetch call never exceeds the concurrency limit.
C1_ScanFetchBound == ScanFetchesInFlight <= concurrency

\* the limit is reached while another dispatched scan waits for a permit
C1_Witness ==
    /\ phase = "scan"
    /\ concurrency = 2
    /\ ScanFetchesInFlight = concurrency
    /\ \E p \in PageUrls : scan[p] = "acquire"

\* C2: counting both phases, the number of calls of fetch in flight never
\* exceeds the concurrency limit.
C2_AllFetchesWithinLimit == FetchCallsInFlight <= concurrency

\* C3: within one resolution every sitemap URL is fetched at most once; a
\* URL is in the visit set exactly when its one fetch has been started.
C3_SitemapFetchedAtMostOnce ==
    \A u \in SitemapUrls :
        /\ fetchCalls[u] <= 1
        /\ (u \in visited_sitemaps <=> fetchCalls[u] = 1)

\* both seeds reference sitemap_a: one branch is fetching it, the other
\* found it visited and went on with its loop
C3_Witness ==
    /\ site = "shared"
    /\ fetchCalls["SA"] = 1
    /\ InFetch("G1") /\ fetch["G1"].url = "SA"
    /\ stack["G2"] # <<>>
    /\ Top("G2").url = "S2" /\ Top("G2").pc = "loop"

DepthBound ==
    \A g \in SeedTasks :
        /\ Len(stack[g]) <= MaxDepth
        /\ Len(stack[g]) = MaxDepth =>
              Top(g).pc = "enter" /\ Top(g).url \in visited_sitemaps

\* the page URLs among the <loc> values of a parsed document
PageLocs(locs) ==
    {UrlOf(Strip(locs[i])) :
        i \in {j \in 1..Len(locs) :
                  locs[j] # None /\ ~IsNestedSitemap(Strip(locs[j]))}}

\* the union of the page <loc> values of the nodes fetched and parsed
ExpectedPages == UNION {PageLocs(Sitemaps[site][n].locs) : n \in parsed}

\* C5: the resolved page-URL collection equals the union of the page <loc>
\* values of every successfully fetched and parsed sitemap node, and holds
\* no <loc> value whose lowercased form contains "sitemap".
C5_ResolvedSetIsUnion ==
    phase # "resolve" =>
        /\ page_urls = ExpectedPages
        /\ page_urls \cap SitemapUrls = {}

\* C6: a fetch whose every attempt fails with a network-level error makes
\* exactly RETRY_ATTEMPTS attempts and then returns the empty body.
C6_RetryBound ==
    \A t \in Tasks :
        LET f == fetch[t]
        IN  /\ f.attempt <= RETRY_ATTEMPTS
            /\ (f.fpc = "ret" /\ f.errs = f.attempt) =>
                  f.attempt = RETRY_ATTEMPTS /\ f.body = Empty
            /\ f.errs = RETRY_ATTEMPTS => f.fpc \in {"sleep", "ret"}

\* a fetch has returned after RETRY_ATTEMPTS failed attempts
C6_Witness ==
    \E t \in Tasks :
        /\ fetch[t].fpc = "ret"
        /\ fetch[t].errs = RETRY_ATTEMPTS
        /\ fetch[t].attempt = RETRY_ATTEMPTS

\* C7: a fetch that fails all its attempts waits only between attempts:
\* RETRY_ATTEMPTS - 1 waits, RETRY_BACKOFF * (2^(RETRY_ATTEMPTS-1) - 1) in
\* total, and none after the last attempt.
C7_WaitsOnlyBetweenAttempts ==
    \A t \in Tasks :
        (fetch[t].fpc = "ret" /\ fetch[t].errs = RETRY_ATTEMPTS) =>
            /\ fetch[t].waits = RETRY_ATTEMPTS - 1
            /\ fetch[t].waited = RETRY_BACKOFF * (2 ^ (RETRY_ATTEMPTS - 1) - 1)

\* C8: a fetch that receives a status >= 400 has returned the empty body:
\* it is in no later request and in no backoff wait.
C8_NoRetryOnHttpError ==
    \A t \in Tasks :
        fetch[t].status >= 400 =>
            fetch[t].fpc = "ret" /\ fetch[t].body = Empty

\* a 404 arrives on a retry and ends the fetch
C8_Witness ==
    \E t \in Tasks :
        /\ fetch[t].status = 404
        /\ fetch[t].fpc = "ret"
        /\ fetch[t].errs = 1 /\ fetch[t].attempt = 2

\* C9: a fetch that receives a status below 400 returns that response's
\* body text.
C9_BodyOnStatusBelow400 ==
    \A t \in Tasks :
        (fetch[t].fpc = "ret" /\ fetch[t].status > 0 /\ fetch[t].status < 400) =>
            fetch[t].body = BodyOf(site, fetch[t].url)

\* C10: fetch never raises to its caller.
C10_FetchNeverRaises == \A t \in Tasks : fetch[t].fpc # "raised"

\* the first call of run on the scanner
FirstRun == Len(runlog) = (IF phase \in {"exit", "done"} THEN 1 ELSE 0)

\* the sitemap nodes that were entered and gave no parsed document: the
\* fetch returned "", the fetch raised, or the content was malformed
FailedNodes == visited_sitemaps \ parsed

\* no parsed document has a <loc> element without text
NoEmptyLoc ==
    \A m \in parsed :
        \A i \in 1..Len(Sitemaps[site][m].locs) :
            Sitemaps[site][m].locs[i] # None

\* C11: a sitemap node whose fetch fails or whose content is malformed
\* contributes no page URL, and the page URLs of every parsed node (its
\* sibling entries, its ancestors, the other seed branch) are in the
\* resolved result.
C11_FailedNodeIsolated ==
    (phase # "resolve" /\ FirstRun /\ NoEmptyLoc /\ FailedNodes # {}) =>
        /\ page_urls \subseteq ExpectedPages
        /\ ExpectedPages \subseteq page_urls

\* the text scan_page extracts from the body the site serves at page p
TextOf(p) == GetText(BodyOf(site, p))

\* the pages whose fetch returned the body of a 200 response
Fetched200 ==
    {p \in page_urls : verdict[p] \in {"match", "nomatch", "skipped200"}}

\* C12: when the run has ended, every dispatched scan has completed, no
\* failed URL is in the final match list, and every other page whose text
\* matches the phrase is in it.
C12_ScanFailureIsolated ==
    phase = "done" =>
        /\ \A p \in page_urls : scan[p] \in {"done", "failed"}
        /\ \A p \in page_urls :
              scan[p] = "failed" => p \notin ToSet(written[Len(written)])
        /\ \A p \in Fetched200 :
              Matches(TextOf(p)) => p \in ToSet(written[Len(written)])

\* the returned calls of run that had resolved a non-empty page-URL set
NonEmptyRuns == {i \in 1..Len(runlog) : runlog[i].pages # {}}

\* C13: the match list is handed to write_results once per run with a
\* non-empty page-URL set, when every dispatched scan has completed, and it
\* is the match list as it stays: no scan appends to it afterwards.
C13_HandedOnceAfterScans ==
    /\ Len(written) = Cardinality(NonEmptyRuns)
    /\ phase = "done" =>
          /\ page_urls # {}
          /\ \A p \in page_urls :
                scan[p] \in {"done", "failed"} /\ fetch[p].fpc = "idle"
    /\ (Len(written) > 0 /\ phase # "scan") =>
          found_urls = written[Len(written)]

\* a run of two or more scans, one of them failed, has handed a match
C13_Witness ==
    /\ phase = "done"
    /\ Cardinality(page_urls) >= 2
    /\ \E p \in page_urls : scan[p] = "failed"
    /\ Len(written) = 1 /\ written[1] # <<>>

\* C14: when resolution gives an empty page-URL set the run returns at once:
\* no scan_page task exists, no page is being fetched, and write_results
\* is not called by that run.
C14_EmptySetEndsRun ==
    /\ (phase # "resolve" /\ page_urls = {}) => phase = "exit"
    /\ phase = "exit" =>
          /\ page_urls = {}
          /\ \A p \in PageUrls : scan[p] = "none" /\ fetch[p].fpc = "idle"
          /\ ~runlog[Len(runlog)].wrote
          /\ Len(runlog) = 1 => written = <<>>

\* the first run has fetched both seeds and returned with nothing to scan
C14_Witness ==
    /\ phase = "exit"
    /\ Len(runlog) = 1
    /\ \A g \in SeedTasks : SeedOf(g) \in visited_sitemaps
    /\ written = <<>>

\* C15: when a run completes, the list handed to write_results holds each
\* resolved page whose fetch succeeded and whose text matches the phrase
\* exactly once, and nothing else.
C15_MatchListExact ==
    phase = "done" =>
        LET final == written[Len(written)]
        IN  /\ ToSet(final) = {p \in Fetched200 : Matches(TextOf(p))}
            /\ Len(final) = Cardinality(ToSet(final))

\* a call of run after the first is at its start
LaterRunStarts ==
    /\ Len(runlog) >= 1
    /\ phase = "resolve"
    /\ \A g \in SeedTasks :
          stack[g] = <<Frame(SeedOf(g))>> /\ results[g] = Pending

\* C16: the visit set and the match list are scoped to one run: a later run
\* starts with both empty, and it resolves the page-URL set and hands over
\* the match list of the first run.
C16_RunsAreIndependent ==
    /\ LaterRunStarts => visited_sitemaps = {} /\ found_urls = <<>>
    /\ \A i \in 1..Len(runlog) :
          /\ runlog[i].pages = runlog[1].pages
          /\ runlog[i].wrote = runlog[1].wrote
          /\ ToSet(runlog[i].handed) = ToSet(runlog[1].handed)

\* the lowercased phrase is a contiguous substring of the lowercased text
OccursLowered(given, text) ==
    \E i \in 1..(Len(text) + 1) :
        /\ i + Len(given) - 1 <= Len(text)
        /\ SubSeq(Lower(text), i, i + Len(given) - 1) = Lower(given)

\* C17 as stated: the plain match is true exactly when the lowercased phrase
\* occurs in the lowercased text, and changing the letter case of any
\* character of the phrase or of the text leaves the result as it was.
C17_CaseOfAnyCharacter ==
    /\ probe.found <=> OccursLowered(phrase, probe.text)
    /\ probe.toggled => probe.found = probe.before

\* C17, amended: the plain match is true exactly when the lowercased phrase
\* occurs in the lowercased text; changing the letter case of a character
\* whose two cases have the same str.lower() leaves the result as it was.
C17_PlainMatchIsLoweredContainment ==
    /\ probe.found <=> OccursLowered(phrase, probe.text)
    /\ (probe.toggled /\ probe.stable) => probe.found = probe.before

\* an upper-case phrase is found in a text after a change of case
C17_Witness ==
    /\ probe.toggled /\ probe.stable
    /\ probe.found
    /\ Len(phrase) = MaxPhrase
    /\ \E i \in 1..Len(phrase) : phrase[i] = "I"
    /\ \E i \in 1..Len(probe.text) : probe.text[i] = "i"

\* C18: an exception raised while the entries of one sitemap node are
\* processed is confined to that node: the page URLs collected before it,
\* in that node, in its sibling nodes and in its ancestors, are in the
\* resolved page-URL set.
C18_LoopExceptionConfined ==
    (phase # "resolve" /\ FirstRun) => dropped \subseteq page_urls

\* C19: scan_page skips matching only when the fetch failed: no page
\* fetched with status 200 is skipped, and one whose text (empty or not)
\* matches the phrase is reported as a match.
C19_SkipsOnlyFailedFetch ==
    \A p \in PageUrls :
        /\ verdict[p] # "skipped200"
        /\ (scan[p] = "done" /\ verdict[p] # "skipped" /\ Matches(TextOf(p)))
              => p \in ToSet(found_urls)

\* the scan tasks inside async with semaphore: from the acquire to the
\* release, which is while their call of fetch is open
Holders == {p \in PageUrls : fetch[p].fpc # "idle"}

PermitsConserved ==
    /\ semaphore \in 0..concurrency
    /\ phase \in {"scan", "done"} =>
          /\ Cardinality(Holders) + semaphore = concurrency
          /\ \A p \in PageUrls :
                scan[p] \in {"done", "failed"} => p \notin Holders
          /\ AllCompleted(page_urls, scan) => semaphore = concurrency

\* C20: the tasks holding a permit and the free permits add up to the
\* limit, a task that has left the fetch (by a value or by an exception)
\* holds none, all permits are free when all scans have completed, and
\* every dispatched scan eventually acquires a permit.
C20_PermitsConservedAndGranted ==
    /\ []PermitsConserved
    /\ \A p \in PageUrls : (scan[p] = "acquire") ~> (scan[p] = "fetch")

\* with the semaphore locked one task waits for a permit, one holds it and
\* one has given it back on an exception
C20_Witness ==
    /\ Locked(semaphore)
    /\ \E p \in PageUrls : scan[p] = "acquire"
    /\ \E p \in PageUrls : scan[p] = "fetch"
    /\ \E p \in PageUrls : verdict[p] = "failed"

====
